---- MODULE Spec2Model ----
(***************************************************************************)
(* Model of backend/src/agent/openrouter.py (the TTL cache of OpenRouter   *)
(* model ids, refreshed on read under a lock) and of the model selection   *)
(* of LoggingCallbacks.before_model in backend/src/agent/callbacks.py.     *)
(*                                                                         *)
(* Python strings are sequences of one-character strings.  A JSON / Python *)
(* value is a record [t, s, n]: t is its type ("str", "int", "none") or    *)
(* "absent" for a key a dict does not hold.                                *)
(***************************************************************************)
EXTENDS Integers, Sequences, FiniteSets, TLC

\* ------------------------------------------------------------ bounds
NumThreads == 2
MaxCalls == 3
MaxTicks == 2

\* ------------------------------------------------------------ constants
CACHE_TTL_SECONDS == 60

OPENROUTER_PREFIX == <<"o", "p", "e", "n", "r", "o", "u", "t", "e", "r", "/">>

SELECTED_MODEL_STATE_KEY == "selectedModel"

\* ------------------------------------------------------------ variables
VARIABLES
    cache,             \* _cache: NoCache (None) or the snapshot {ids, models}
    cache_updated_at,  \* _cache_updated_at
    cache_lock,        \* _cache_lock: 0 when free, else the thread holding it
    now,               \* time.monotonic()
    ticks,             \* the clock steps taken
    calls,             \* the calls made
    pc,                \* where each thread is: idle, lock, fetch, stamp
    op,                \* the function each thread is in
    state,             \* before_model: the selectedModel value of the state
    sel,               \* before_model: selected_model
    req,               \* before_model: llm_request
    coalesced,         \* the threads that waited for the lock through a fetch
                       \* that ended at the present clock reading
    ret                \* the call that ends in this step: inputs and outcome

vars == << cache, cache_updated_at, cache_lock, now, ticks, calls, pc, op, state,
           sel, req, coalesced, ret >>

\* ------------------------------------------------------------ values
Str(s) == [t |-> "str", s |-> s, n |-> 0]
Int_(n) == [t |-> "int", s |-> <<>>, n |-> n]
None == [t |-> "none", s |-> <<>>, n |-> 0]
Absent == [t |-> "absent", s |-> <<>>, n |-> 0]

\* dict.get(key): the value, or None when the key is absent
Get(v) == IF v.t = "absent" THEN None ELSE v

\* dict.get(key, default)
GetDefault(v, d) == IF v.t = "absent" THEN d ELSE v

IsInstanceStr(v) == v.t = "str"

\* ------------------------------------------------------------ strings
Whitespace == {" ", "\t", "\n"}

LowerChar(c) ==
    CASE c = "O" -> "o"
      [] c = "R" -> "r"
      [] c = "F" -> "f"
      [] OTHER -> c

Lower(s) == [i \in 1..Len(s) |-> LowerChar(s[i])]

StartsWith(s, p) == Len(s) >= Len(p) /\ SubSeq(s, 1, Len(p)) = p

Contains(s, c) == \E i \in 1..Len(s) : s[i] = c

RECURSIVE LStrip(_)
LStrip(s) ==
    IF s /= <<>> /\ Head(s) \in Whitespace THEN LStrip(Tail(s)) ELSE s

RECURSIVE RStrip(_)
RStrip(s) ==
    IF s /= <<>> /\ s[Len(s)] \in Whitespace
    THEN RStrip(SubSeq(s, 1, Len(s) - 1))
    ELSE s

Strip(s) == RStrip(LStrip(s))

\* ------------------------------------------------------------ the ids used
Foo == <<"f", "o", "o">>
OrFoo == OPENROUTER_PREFIX \o Foo
UpperOrFoo == <<"O", "p", "e", "n", "R", "o", "u", "t", "e", "r", "/">> \o Foo
VendorModel == <<"v", "/", "m">>
BareId == <<"b", "a", "r", "e">>
Unknown == <<"u", "n", "k", "n", "o", "w", "n">>

\* ------------------------------------------------------------ fetch outcomes
\* One entry of the "data" array: a record (a JSON object) or not.
Rec(id, name, ctx) ==
    [rec |-> TRUE, id |-> id, name |-> name, context_length |-> ctx]
NonRec == [rec |-> FALSE, id |-> Absent, name |-> Absent, context_length |-> Absent]

CatalogA ==
    << Rec(Str(Foo), Str(<<"F">>), Int_(8)),
       Rec(Int_(7), Str(<<"n">>), Int_(4)),
       Rec(Str(OrFoo), Absent, Absent),
       Rec(Absent, Str(<<"x">>), Absent),
       Rec(Str(UpperOrFoo), None, Int_(2)) >>

CatalogBad == << Rec(Str(Foo), Absent, Absent), NonRec >>

\* What one call of fetch_models meets: no credential, a failing request or
\* parse, or a parsed JSON body (an object or not; its "data" a list or not).
Outcome(kind, top, data, items) ==
    [kind |-> kind, top |-> top, data |-> data, items |-> items]

FetchOutcomes ==
    { Outcome("nokey", "none", "none", <<>>),
      Outcome("error", "none", "none", <<>>),
      Outcome("body", "nonobj", "none", <<>>),
      Outcome("body", "obj", "absent", <<>>),
      Outcome("body", "obj", "list", <<>>),
      Outcome("body", "obj", "list", CatalogA),
      Outcome("body", "obj", "list", CatalogBad) }

\* ------------------------------------------------------------ openrouter.py
Returned(v) == [raised |-> FALSE, value |-> v]
Raised == [raised |-> TRUE, value |-> <<>>]

\* faulty variant: a network error is not caught
fetch_models_uncaught(o) ==
    IF o.kind = "nokey" THEN Returned(<<>>)
    ELSE IF o.kind = "error" THEN Raised
    ELSE IF o.top /= "obj" THEN Raised
    ELSE IF o.data /= "list" THEN Returned(<<>>)
    ELSE Returned(o.items)

\* fetch_models: the raw records, [] on a caught failure; data.get on a body
\* that is no object raises outside the try.
fetch_models(o) ==
    IF o.kind = "nokey" THEN Returned(<<>>)
    ELSE IF o.kind = "error" THEN Returned(<<>>)
    ELSE IF o.top /= "obj" THEN Raised
    ELSE IF o.data /= "list" THEN Returned(<<>>)
    ELSE Returned(o.items)

HasStrId(m) == IsInstanceStr(Get(m.id))

\* faulty variant: the name always falls back to "unknown"
SimplifyUnknownName(m) ==
    [id |-> Get(m.id).s,
     name |-> GetDefault(m.name, Str(Unknown)),
     context_length |-> Get(m.context_length)]

Simplify(m) ==
    [id |-> Get(m.id).s,
     name |-> GetDefault(m.name, GetDefault(m.id, Str(Unknown))),
     context_length |-> Get(m.context_length)]

RECURSIVE SimplifiedOf(_)
SimplifiedOf(models) ==
    IF models = <<>> THEN <<>>
    ELSE IF HasStrId(Head(models))
         THEN <<Simplify(Head(models))>> \o SimplifiedOf(Tail(models))
         ELSE SimplifiedOf(Tail(models))

IdsOf(models) ==
    {Get(models[i].id).s : i \in {j \in 1..Len(models) : HasStrId(models[j])}}

NoCache == [present |-> FALSE, ids |-> {}, models |-> <<>>]

\* faulty variant: only the id set is replaced, the listing stays
SnapshotIdsOnly(ids, simplified) ==
    [present |-> TRUE, ids |-> ids, models |-> cache.models]

Snapshot(ids, simplified) == [present |-> TRUE, ids |-> ids, models |-> simplified]

\* _refresh_cache up to the assignment of _cache: the new snapshot, or the
\* exception of fetch_models or of m.get on an entry that is no record.
refresh_cache(o) ==
    LET r == fetch_models(o) IN
    IF r.raised THEN Raised
    ELSE IF \E i \in 1..Len(r.value) : ~r.value[i].rec THEN Raised
    ELSE Returned(Snapshot(IdsOf(r.value), SimplifiedOf(r.value)))


\* faulty variant: a snapshot aged exactly the TTL still counts as fresh
NeedsRefreshStrict(c, updated_at, t) ==
    ~c.present \/ (t - updated_at) > CACHE_TTL_SECONDS

\* faulty variant: a snapshot never expires
NeedsRefreshNoTtl(c, updated_at, t) == ~c.present

\* faulty variant: the comparison with the TTL is turned round
NeedsRefreshInverted(c, updated_at, t) ==
    ~c.present \/ (t - updated_at) <= CACHE_TTL_SECONDS

\* the condition of get_cached_model_ids / get_models_for_ui inside the lock
NeedsRefresh(c, updated_at, t) ==
    ~c.present \/ (t - updated_at) >= CACHE_TTL_SECONDS

\* ------------------------------------------------------------ callbacks.py
NoModel == [some |-> FALSE, s |-> <<>>]
SomeModel(s) == [some |-> TRUE, s |-> s]

\* faulty variant: a value that is no string is used as its text
read_selected_model_any_type(state_data) ==
    LET selected_model == Get(state_data[SELECTED_MODEL_STATE_KEY]) IN
    IF selected_model.t = "int" THEN SomeModel(<<"7">>)
    ELSE IF ~IsInstanceStr(selected_model) THEN NoModel
    ELSE LET normalized_selected_model == Strip(selected_model.s) IN
         IF normalized_selected_model = <<>> THEN NoModel
         ELSE SomeModel(normalized_selected_model)

\* faulty variant: the string is not trimmed
read_selected_model_untrimmed(state_data) ==
    LET selected_model == Get(state_data[SELECTED_MODEL_STATE_KEY]) IN
    IF ~IsInstanceStr(selected_model) THEN NoModel
    ELSE IF selected_model.s = <<>> THEN NoModel
    ELSE SomeModel(selected_model.s)

\* _read_selected_model_from_state: the trimmed string, or None
read_selected_model_from_state(state_data) ==
    LET selected_model == Get(state_data[SELECTED_MODEL_STATE_KEY]) IN
    IF ~IsInstanceStr(selected_model) THEN NoModel
    ELSE LET normalized_selected_model == Strip(selected_model.s) IN
         IF normalized_selected_model = <<>> THEN NoModel
         ELSE SomeModel(normalized_selected_model)

\* faulty variant: the prefix is looked for without lower-casing
model_for_request_case_sensitive(selected_model) ==
    IF ~StartsWith(selected_model, OPENROUTER_PREFIX)
    THEN OPENROUTER_PREFIX \o selected_model
    ELSE selected_model

\* the model string _apply_selected_model_to_request writes
model_for_request(selected_model) ==
    IF ~StartsWith(Lower(selected_model), OPENROUTER_PREFIX)
    THEN OPENROUTER_PREFIX \o selected_model
    ELSE selected_model

\* _apply_selected_model_to_request: the assignment to llm_request.model
\* succeeds, or the request object refuses it and raises (the request then
\* keeps its model)
apply_selected_model_to_request(llm_request, selected_model, refuses) ==
    IF refuses THEN [raised |-> TRUE, value |-> llm_request]
    ELSE [raised |-> FALSE,
          value |-> [llm_request EXCEPT !.model = model_for_request(selected_model)]]

\* faulty variant: a "/" is enough whatever the allow-list holds
is_allowed_any_slash(selected_model, allowed_ids) ==
    selected_model \in allowed_ids \/ Contains(selected_model, "/")

\* faulty variant: no permissive rule for an empty allow-list
is_allowed_strict(selected_model, allowed_ids) ==
    selected_model \in allowed_ids

\* is_allowed of before_model
is_allowed(selected_model, allowed_ids) ==
    IF selected_model \in allowed_ids THEN TRUE
    ELSE IF allowed_ids = {} THEN Contains(selected_model, "/")
    ELSE FALSE

Log(level, msg) == <<level, msg>>

\* faulty variant: no try block around the assignment
select_model_uncaught(llm_request, selected_model, allowed_ids, refuses) ==
    LET allowed == is_allowed(selected_model, allowed_ids) IN
    IF ~allowed
    THEN [request |-> llm_request, accepted |-> FALSE, raised |-> FALSE,
          log |-> <<Log("warning", "not in allowed list")>>]
    ELSE LET a == apply_selected_model_to_request(llm_request, selected_model, refuses) IN
         [request |-> a.value, accepted |-> TRUE, raised |-> a.raised,
          log |-> <<Log("info", "requested model")>>]

\* The selection step of before_model once the allow-list is known: the
\* request after it, the lines logged and whether an exception leaves it
\* (the try block catches the one of the assignment).
select_model(llm_request, selected_model, allowed_ids, refuses) ==
    LET in_list == selected_model \in allowed_ids
        allowed == is_allowed(selected_model, allowed_ids)
        pre == IF ~in_list /\ allowed_ids = {} /\ allowed
               THEN <<Log("info", "model list unavailable")>>
               ELSE <<>>
    IN  IF ~allowed
        THEN [request |-> llm_request, accepted |-> FALSE, raised |-> FALSE,
              log |-> pre \o <<Log("warning", "not in allowed list")>>]
        ELSE LET a == apply_selected_model_to_request(llm_request, selected_model, refuses) IN
             IF a.raised
             THEN [request |-> a.value, accepted |-> TRUE, raised |-> FALSE,
                   log |-> pre \o <<Log("info", "requested model"),
                                    Log("warning", "failed to apply")>>]
             ELSE [request |-> a.value, accepted |-> TRUE, raised |-> FALSE,
                   log |-> pre \o <<Log("info", "requested model"),
                                    Log("info", "applied model")>>]

\* faulty variant: only ValueError is caught
add_session_result_value_error_only(outcome) ==
    IF outcome = "ok"
    THEN [raised |-> FALSE, log |-> <<Log("info", "starting add_session_to_memory")>>]
    ELSE IF outcome = "ValueError"
    THEN [raised |-> FALSE,
          log |-> <<Log("info", "starting add_session_to_memory"),
                    Log("warning", "ValueError")>>]
    ELSE [raised |-> TRUE, log |-> <<Log("info", "starting add_session_to_memory")>>]

\* add_session_to_memory: the save returns, raises ValueError or raises
\* another Exception; both handlers log a warning and the function returns
\* None
add_session_result(outcome) ==
    IF outcome = "ok"
    THEN [raised |-> FALSE, log |-> <<Log("info", "starting add_session_to_memory")>>]
    ELSE IF outcome = "ValueError"
    THEN [raised |-> FALSE,
          log |-> <<Log("info", "starting add_session_to_memory"),
                    Log("warning", "ValueError")>>]
    ELSE [raised |-> FALSE,
          log |-> <<Log("info", "starting add_session_to_memory"),
                    Log("warning", "failed to add session to memory")>>]

\* state.to_dict(): a copy of the state container
to_dict(state_data) == [k \in DOMAIN state_data |-> state_data[k]]

\* the objects a callback was handed, as they are when it returns
Objects(state_value, response, args) ==
    [state |-> state_value, response |-> response, args |-> args]

\* ------------------------------------------------------------ inputs
DefaultModel == <<"g">>

StateValues ==
    { Absent, Int_(7), Str(<<>>), Str(<<" ", "\t">>),
      Str(Foo), Str(OrFoo), Str(UpperOrFoo), Str(VendorModel),
      Str(<<" ">> \o BareId \o <<"\n">>) }

Requests == { [model |-> DefaultModel, contents |-> <<"hi">>] }

\* what add_session_to_memory of the callback context does
SaveOutcomes == {"ok", "ValueError", "RuntimeError"}

\* the objects the observing callbacks are handed
NoResponse == [content |-> Absent]
NoArgs == [q |-> Absent]
ObservedStates == {Absent, Str(Foo)}
Responses == { [content |-> None], [content |-> Str(<<"ok">>)] }
ToolArgs == { [q |-> Int_(1)], [q |-> Str(<<"x">>)] }
ToolResponses == { [content |-> Str(<<"r">>)] }

\* ------------------------------------------------------------ state
Threads == 1..NumThreads

\* time.monotonic() advances by these steps, MaxTicks times at most
TickSteps == {1, CACHE_TTL_SECONDS - 1}

NoRequest == [model |-> <<>>, contents |-> <<>>]

NoRet ==
    [op |-> "none", raised |-> FALSE, fetched |-> FALSE,
     ids |-> {}, models |-> <<>>,
     state |-> Absent, selected |-> NoModel, prior |-> NoRequest, request |-> NoRequest,
     accepted |-> FALSE, refused |-> FALSE, log |-> <<>>,
     outcome |-> "none", raw |-> <<>>, old |-> NoCache,
     response |-> NoResponse, args |-> NoArgs,
     after |-> Objects(Absent, NoResponse, NoArgs)]

Init ==
    /\ cache = NoCache
    /\ cache_updated_at = 0
    /\ cache_lock = 0
    /\ now = 0
    /\ ticks = 0
    /\ calls = 0
    /\ pc = [t \in Threads |-> "idle"]
    /\ op = [t \in Threads |-> "none"]
    /\ state = [t \in Threads |-> Absent]
    /\ sel = [t \in Threads |-> NoModel]
    /\ req = [t \in Threads |-> NoRequest]
    /\ coalesced = {}
    /\ ret = NoRet

\* time passes
Tick(d) ==
    /\ ticks < MaxTicks
    /\ ticks' = ticks + 1
    /\ now' = now + d
    /\ coalesced' = {}
    /\ ret' = NoRet
    /\ UNCHANGED << cache, cache_updated_at, cache_lock, calls, pc, op, state, sel,
                    req >>

\* a thread enters get_cached_model_ids or get_models_for_ui and reaches
\* "with _cache_lock"
Enter(t, f, value, selected, request) ==
    /\ pc[t] = "idle"
    /\ calls < MaxCalls
    /\ calls' = calls + 1
    /\ pc' = [pc EXCEPT ![t] = "lock"]
    /\ op' = [op EXCEPT ![t] = f]
    /\ state' = [state EXCEPT ![t] = value]
    /\ sel' = [sel EXCEPT ![t] = selected]
    /\ req' = [req EXCEPT ![t] = request]
    /\ ret' = NoRet
    /\ UNCHANGED << cache, cache_updated_at, cache_lock, now, ticks, coalesced >>

get_cached_model_ids(t) ==
    Enter(t, "get_cached_model_ids", Absent, NoModel, NoRequest)

get_models_for_ui(t) ==
    Enter(t, "get_models_for_ui", Absent, NoModel, NoRequest)

\* before_model up to the call of _get_allowed_model_ids; without a selected
\* model it logs and is done
before_model(t, state_data, llm_request) ==
    LET selected_model == read_selected_model_from_state(state_data) IN
    IF ~selected_model.some
    THEN /\ pc[t] = "idle"
         /\ calls < MaxCalls
         /\ calls' = calls + 1
         /\ ret' = [NoRet EXCEPT !.op = "before_model",
                                 !.state = state_data[SELECTED_MODEL_STATE_KEY],
                                 !.prior = llm_request,
                                 !.request = llm_request,
                                 !.after = Objects(to_dict(state_data)[SELECTED_MODEL_STATE_KEY],
                                                   NoResponse, NoArgs),
                                 !.log = <<Log("info", "no selected model")>>]
         /\ UNCHANGED << cache, cache_updated_at, cache_lock, now, ticks, pc, op,
                         state, sel, req, coalesced >>
    ELSE Enter(t, "before_model", state_data[SELECTED_MODEL_STATE_KEY],
               selected_model, llm_request)

\* the copies the two getters return
ReturnedIds(c) == c.ids
ReturnedModels(c) == c.models

\* the positions at which the returned value holds the very object the
\* snapshot holds: set(...) copies a set of strings; list(...) builds a new
\* list of the same record objects
AliasedRecords(f, c) ==
    IF f = "get_models_for_ui" THEN 1..Len(c.models) ELSE {}

\* the outcome of a call that returns: the getter's value and, in
\* before_model, the selection that follows
Outcome_(t, c, did_fetch, refuses) ==
    LET base == [NoRet EXCEPT !.op = op[t], !.fetched = did_fetch,
                              !.state = state[t],
                              !.selected = sel[t], !.prior = req[t],
                              !.request = req[t],
                              !.after = Objects(state[t], NoResponse, NoArgs)]
    IN  IF op[t] = "get_models_for_ui"
        THEN [base EXCEPT !.models = ReturnedModels(c)]
        ELSE IF op[t] = "get_cached_model_ids"
        THEN [base EXCEPT !.ids = ReturnedIds(c)]
        ELSE LET allowed_ids == ReturnedIds(c)
                 d == select_model(req[t], sel[t].s, allowed_ids, refuses)
             IN  [base EXCEPT !.ids = allowed_ids, !.request = d.request,
                              !.raised = d.raised, !.accepted = d.accepted,
                              !.refused = d.accepted /\ refuses, !.log = d.log]

\* the outcome of a call that an exception ends
Failure(t) ==
    [NoRet EXCEPT !.op = op[t], !.raised = TRUE, !.fetched = TRUE,
                  !.state = state[t], !.selected = sel[t],
                  !.prior = req[t], !.request = req[t],
                  !.after = Objects(state[t], NoResponse, NoArgs)]

\* the thread is back in its caller
Leave(t) ==
    /\ pc' = [pc EXCEPT ![t] = "idle"]
    /\ op' = [op EXCEPT ![t] = "none"]
    /\ state' = [state EXCEPT ![t] = Absent]
    /\ sel' = [sel EXCEPT ![t] = NoModel]
    /\ req' = [req EXCEPT ![t] = NoRequest]
    /\ coalesced' = coalesced \ {t}

\* faulty variant: the lock does not exclude
CanAcquireAlways(lock) == TRUE

\* faulty variant: an exception leaves the lock with the thread it ended
LockAfterRaiseHeld(t) == t

\* the with statement releases the lock when an exception leaves its block
LockAfterRaise(t) == 0

\* _cache_lock.acquire(): only a free lock is taken
CanAcquire(lock) == lock = 0

\* the lock is taken and the freshness of the cache is checked inside it: a
\* fresh snapshot is returned and the lock released, else fetch_models starts
AcquireLock(t, refuses) ==
    /\ pc[t] = "lock"
    /\ CanAcquire(cache_lock)
    /\ IF NeedsRefresh(cache, cache_updated_at, now)
       THEN /\ cache_lock' = t
            /\ pc' = [pc EXCEPT ![t] = "fetch"]
            /\ ret' = NoRet
            /\ UNCHANGED << op, state, sel, req, coalesced >>
       ELSE /\ cache_lock' = 0
            /\ ret' = Outcome_(t, cache, FALSE, refuses)
            /\ Leave(t)
    /\ UNCHANGED << cache, cache_updated_at, now, ticks, calls >>

\* _refresh_cache, lines 31 to 42: fetch_models returns or raises; the
\* snapshot is built and assigned, or the exception leaves the with block
\* (which releases the lock) and the caller
RefreshCache(t, o) ==
    LET r == refresh_cache(o) IN
    /\ pc[t] = "fetch"
    /\ IF r.raised
       THEN /\ cache_lock' = LockAfterRaise(t)
            /\ ret' = [Failure(t) EXCEPT !.outcome = o.kind]
            /\ pc' = [pc EXCEPT ![t] = "idle"]
            /\ op' = [op EXCEPT ![t] = "none"]
            /\ state' = [state EXCEPT ![t] = Absent]
            /\ sel' = [sel EXCEPT ![t] = NoModel]
            /\ req' = [req EXCEPT ![t] = NoRequest]
            /\ coalesced' = {u \in Threads : pc[u] = "lock"}
            /\ UNCHANGED cache
       ELSE /\ cache' = r.value
            /\ pc' = [pc EXCEPT ![t] = "stamp"]
            /\ coalesced' = {u \in Threads : pc[u] = "lock"}
            /\ ret' = [NoRet EXCEPT !.op = "fetch_models", !.outcome = o.kind,
                                    !.raw = fetch_models(o).value, !.old = cache]
            /\ UNCHANGED << cache_lock, op, state, sel, req >>
    /\ UNCHANGED << cache_updated_at, now, ticks, calls >>

\* _refresh_cache, line 43, then the return statement of the getter and the
\* release of the lock
StoreTimestamp(t, refuses) ==
    /\ pc[t] = "stamp"
    /\ cache_updated_at' = now
    /\ cache_lock' = 0
    /\ ret' = Outcome_(t, cache, TRUE, refuses)
    /\ Leave(t)
    /\ UNCHANGED << cache, now, ticks, calls >>

\* an observing callback: it logs what it was handed and returns None
Observe(t, name, state_data, response, args, log) ==
    /\ pc[t] = "idle"
    /\ ret' = [NoRet EXCEPT !.op = name,
                            !.state = state_data[SELECTED_MODEL_STATE_KEY],
                            !.response = response, !.args = args,
                            !.after = Objects(to_dict(state_data)[SELECTED_MODEL_STATE_KEY],
                                              response, args),
                            !.log = log]
    /\ UNCHANGED << cache, cache_updated_at, cache_lock, now, ticks, calls, pc,
                    op, state, sel, req, coalesced >>

before_agent(t, state_data) ==
    Observe(t, "before_agent", state_data, NoResponse, NoArgs,
            <<Log("info", "starting agent"), Log("debug", "state keys")>>)

after_agent(t, state_data) ==
    Observe(t, "after_agent", state_data, NoResponse, NoArgs,
            <<Log("info", "leaving agent"), Log("debug", "state keys")>>)

after_model(t, state_data, llm_response) ==
    Observe(t, "after_model", state_data, llm_response, NoArgs,
            <<Log("info", "after LLM call"), Log("debug", "state keys")>>
            \o (IF llm_response.content /= None
                THEN <<Log("debug", "LLM response")>> ELSE <<>>))

before_tool(t, args, state_data) ==
    Observe(t, "before_tool", state_data, NoResponse, args,
            <<Log("info", "before invoking tool"), Log("debug", "state keys"),
              Log("debug", "event actions"), Log("debug", "args")>>)

\* faulty variant: the arguments are cleared after logging
after_tool_clears_args(t, args, state_data, tool_response) ==
    /\ pc[t] = "idle"
    /\ ret' = [NoRet EXCEPT !.op = "after_tool",
                            !.state = state_data[SELECTED_MODEL_STATE_KEY],
                            !.response = tool_response, !.args = args,
                            !.after = Objects(state_data[SELECTED_MODEL_STATE_KEY],
                                              tool_response, NoArgs),
                            !.log = <<Log("info", "after invoking tool")>>]
    /\ UNCHANGED << cache, cache_updated_at, cache_lock, now, ticks, calls, pc,
                    op, state, sel, req, coalesced >>

after_tool(t, args, state_data, tool_response) ==
    Observe(t, "after_tool", state_data, tool_response, args,
            <<Log("info", "after invoking tool"), Log("debug", "state keys"),
              Log("debug", "event actions"), Log("debug", "args"),
              Log("debug", "tool response")>>)

\* the module-level callback that saves the session
add_session_to_memory(t, outcome) ==
    LET r == add_session_result(outcome) IN
    /\ pc[t] = "idle"
    /\ ret' = [NoRet EXCEPT !.op = "add_session_to_memory", !.outcome = outcome,
                            !.raised = r.raised, !.log = r.log]
    /\ UNCHANGED << cache, cache_updated_at, cache_lock, now, ticks, calls, pc,
                    op, state, sel, req, coalesced >>

Next ==
    \/ \E d \in TickSteps : Tick(d)
    \/ \E t \in Threads : get_cached_model_ids(t)
    \/ \E t \in Threads : get_models_for_ui(t)
    \/ \E t \in Threads, v \in StateValues, r \in Requests :
          before_model(t, [k \in {SELECTED_MODEL_STATE_KEY} |-> v], r)
    \/ \E t \in Threads, refuses \in BOOLEAN : AcquireLock(t, refuses)
    \/ \E t \in Threads, o \in FetchOutcomes : RefreshCache(t, o)
    \/ \E t \in Threads, refuses \in BOOLEAN : StoreTimestamp(t, refuses)

Spec == Init /\ [][Next]_vars

\* the two getters alone, called by every thread; a runnable thread gets to
\* run: it takes a lock that stays free, its fetch ends and it stores
NextCache ==
    \/ \E d \in TickSteps : Tick(d)
    \/ \E t \in Threads : get_cached_model_ids(t)
    \/ \E t \in Threads : get_models_for_ui(t)
    \/ \E t \in Threads, refuses \in BOOLEAN : AcquireLock(t, refuses)
    \/ \E t \in Threads, o \in FetchOutcomes : RefreshCache(t, o)
    \/ \E t \in Threads, refuses \in BOOLEAN : StoreTimestamp(t, refuses)

SpecLock ==
    /\ Init
    /\ [][NextCache]_vars
    /\ \A t \in Threads :
          /\ WF_vars(\E refuses \in BOOLEAN : AcquireLock(t, refuses))
          /\ WF_vars(\E o \in FetchOutcomes : RefreshCache(t, o))
          /\ WF_vars(\E refuses \in BOOLEAN : StoreTimestamp(t, refuses))

\* what the caller of a getter does to the value it has just been returned
CallerName == Str(<<"x">>)

caller_changes_set ==
    /\ ret.op = "get_cached_model_ids" /\ ~ret.raised
    /\ ret' = [ret EXCEPT !.op = "caller", !.old = cache,
                          !.ids = (@ \ {Foo}) \cup {VendorModel}]
    /\ UNCHANGED << cache, cache_updated_at, cache_lock, now, ticks, calls, pc,
                    op, state, sel, req, coalesced >>

caller_changes_list ==
    /\ ret.op = "get_models_for_ui" /\ ~ret.raised
    /\ ret' = [ret EXCEPT !.op = "caller", !.old = cache,
                          !.models = IF @ = <<>> THEN <<Simplify(CatalogA[1])>>
                                     ELSE Tail(@)]
    /\ UNCHANGED << cache, cache_updated_at, cache_lock, now, ticks, calls, pc,
                    op, state, sel, req, coalesced >>

caller_modifies_record(i) ==
    /\ ret.op = "get_models_for_ui" /\ ~ret.raised
    /\ i \in 1..Len(ret.models)
    /\ LET r == [ret.models[i] EXCEPT !.name = CallerName] IN
       /\ ret' = [ret EXCEPT !.op = "caller", !.old = cache, !.models[i] = r]
       /\ cache' = IF i \in AliasedRecords(ret.op, cache)
                   THEN [cache EXCEPT !.models[i] = r]
                   ELSE cache
    /\ UNCHANGED << cache_updated_at, cache_lock, now, ticks, calls, pc,
                    op, state, sel, req, coalesced >>

NextCaller ==
    \/ NextCache
    \/ caller_changes_set
    \/ caller_changes_list
    \/ \E i \in 1..Len(CatalogA) : caller_modifies_record(i)

SpecCaller == Init /\ [][NextCaller]_vars

\* the callbacks of one agent run, called in sequence by one thread
PipelineThread == 1

NextHooks ==
    \/ \E d \in TickSteps : Tick(d)
    \/ \E v \in StateValues, r \in Requests :
          before_model(PipelineThread, [k \in {SELECTED_MODEL_STATE_KEY} |-> v], r)
    \/ \E refuses \in BOOLEAN : AcquireLock(PipelineThread, refuses)
    \/ \E o \in FetchOutcomes : RefreshCache(PipelineThread, o)
    \/ \E refuses \in BOOLEAN : StoreTimestamp(PipelineThread, refuses)
    \/ \E v \in ObservedStates :
          before_agent(PipelineThread, [k \in {SELECTED_MODEL_STATE_KEY} |-> v])
    \/ \E v \in ObservedStates :
          after_agent(PipelineThread, [k \in {SELECTED_MODEL_STATE_KEY} |-> v])
    \/ \E v \in ObservedStates, x \in Responses :
          after_model(PipelineThread, [k \in {SELECTED_MODEL_STATE_KEY} |-> v], x)
    \/ \E v \in ObservedStates, a \in ToolArgs :
          before_tool(PipelineThread, a, [k \in {SELECTED_MODEL_STATE_KEY} |-> v])
    \/ \E v \in ObservedStates, a \in ToolArgs, x \in ToolResponses :
          after_tool(PipelineThread, a, [k \in {SELECTED_MODEL_STATE_KEY} |-> v], x)
    \/ \E outcome \in SaveOutcomes : add_session_to_memory(PipelineThread, outcome)

SpecHooks == Init /\ [][NextHooks]_vars

\* ------------------------------------------------------------ properties
Getters == {"get_cached_model_ids", "get_models_for_ui"}

WarningLogged(log) == \E i \in 1..Len(log) : log[i][1] = "warning"

\* a before_model call that reached the selection with an allow-list
Selected == ret.op = "before_model" /\ ret.selected.some /\ ~ret.raised

\* the selectedModel value is absent, no string, empty or whitespace only
BlankValue(v) == v.t /= "str" \/ \A i \in 1..Len(v.s) : v.s[i] \in Whitespace

\* the provider prefix added unless the string has it (in any case of letters)
WithPrefix(s) ==
    IF StartsWith(Lower(s), OPENROUTER_PREFIX) THEN s ELSE OPENROUTER_PREFIX \o s

\* C1: whatever the fetch meets (records, no records, a network error, no
\* credential, a malformed response), get_cached_model_ids and
\* get_models_for_ui return a result and never raise to the caller.
C1_GettersNeverRaise == ret.op \in Getters => ~ret.raised

\* C2: of the callers that call while the cache is absent or expired, one
\* fetches; a caller that waited for the lock through that fetch and checks
\* the cache at the clock reading at which the fetch ended does not fetch again.
C2_WaitersDoNotFetch == \A t \in coalesced : pc[t] /= "fetch"

\* C3: a call whose check inside the lock meets a snapshot younger than the
\* TTL performs no fetch, leaves the snapshot alone and returns its content;
\* the call that refreshed returned the content it stored; and the snapshot
\* changes only in a refresh.
C3_IdempotentWithinTtl ==
    [][ /\ \A t \in Threads :
            ( /\ pc[t] = "lock" /\ pc'[t] /= "lock"
              /\ cache.present
              /\ now - cache_updated_at < CACHE_TTL_SECONDS )
            => ( /\ pc'[t] = "idle"
                 /\ ~ret'.fetched /\ ~ret'.raised
                 /\ cache' = cache /\ cache_updated_at' = cache_updated_at
                 /\ op[t] = "get_models_for_ui" => ret'.models = cache.models
                 /\ op[t] /= "get_models_for_ui" => ret'.ids = cache.ids )
        /\ \A t \in Threads :
            (pc[t] = "stamp" /\ pc'[t] = "idle")
            => ( /\ ret'.fetched /\ cache' = cache
                 /\ op[t] = "get_models_for_ui" => ret'.models = cache.models
                 /\ op[t] /= "get_models_for_ui" => ret'.ids = cache.ids )
        /\ cache' /= cache => \E t \in Threads : pc[t] = "fetch"
      ]_vars

\* a second call has returned a non-empty snapshot without a fetch
C3_Witness ==
    /\ ret.op = "get_cached_model_ids" /\ ~ret.fetched /\ ~ret.raised
    /\ calls >= 2 /\ ret.ids = cache.ids /\ ret.ids /= {}

\* C4: the stored id set and the stored listing come from one fetch result
\* (the id set is the set of the ids of the listing), and what a getter
\* returns is that snapshot's id set or listing, read while no refresh is
\* under way.
C4_SnapshotAtomic ==
    /\ cache.present =>
          cache.ids = {cache.models[i].id : i \in 1..Len(cache.models)}
    /\ (ret.op \in Getters /\ ~ret.raised) =>
          /\ cache.present
          /\ \A t \in Threads : pc[t] \notin {"fetch", "stamp"}
          /\ ret.op = "get_cached_model_ids" => ret.ids = cache.ids
          /\ ret.op = "get_models_for_ui" =>
                /\ ret.models = cache.models
                /\ {ret.models[i].id : i \in 1..Len(ret.models)} = cache.ids

\* a refresh stored a non-empty snapshot and its caller got the listing
C4_Witness ==
    /\ ret.op = "get_models_for_ui" /\ ret.fetched /\ ~ret.raised
    /\ Len(ret.models) = 3 /\ Cardinality(cache.ids) = 3

\* C5: a selected model s (trimmed, not blank) that is in the id set the
\* cache returned is accepted, and the request model becomes s when s
\* lower-cased starts with "openrouter/" and "openrouter/" + s otherwise
\* (when the request takes the assignment); the rule changes nothing when
\* applied to its own output.
C5_AcceptAndPrefix ==
    (Selected /\ ret.selected.s \in ret.ids) =>
        /\ ret.accepted
        /\ ~ret.refused =>
             /\ ret.request.model = WithPrefix(ret.selected.s)
             /\ model_for_request(ret.request.model) = ret.request.model
             /\ ret.selected.s = Foo => ret.request.model = OrFoo
             /\ ret.selected.s = OrFoo => ret.request.model = OrFoo
             /\ ret.selected.s = UpperOrFoo => ret.request.model = UpperOrFoo

\* "foo" of the allow-list was written as "openrouter/foo"
C5_Witness ==
    /\ Selected /\ ret.selected.s = Foo /\ Foo \in ret.ids
    /\ ret.prior.model = DefaultModel /\ ret.request.model = OrFoo

\* C6: when the id set the cache returned is not empty and does not hold
\* the selected model, the request keeps the model it had (with or without
\* a "/" in the string) and a warning is logged.
C6_RejectOnNonEmptyList ==
    (Selected /\ ret.ids /= {} /\ ret.selected.s \notin ret.ids) =>
        /\ ~ret.accepted
        /\ ret.request = ret.prior
        /\ WarningLogged(ret.log)

\* "v/m" was rejected against a non-empty allow-list
C6_Witness ==
    /\ Selected /\ ret.ids /= {} /\ ret.selected.s = VendorModel
    /\ ret.request = ret.prior /\ WarningLogged(ret.log)

\* C7: with an empty id set the selected model is accepted if and only if
\* it contains "/" (then written with the provider prefix, else the request
\* is left alone); with a non-empty id set an id outside it is never accepted.
C7_DegradePermissive ==
    Selected =>
        /\ ret.ids = {} => (ret.accepted <=> Contains(ret.selected.s, "/"))
        /\ (ret.ids = {} /\ ret.accepted /\ ~ret.refused) =>
               ret.request.model = WithPrefix(ret.selected.s)
        /\ ~ret.accepted => ret.request = ret.prior
        /\ (ret.ids /= {} /\ ret.selected.s \notin ret.ids) => ~ret.accepted

\* "v/m" was accepted on an empty allow-list and written with the prefix
C7_Witness ==
    /\ Selected /\ ret.ids = {} /\ ret.selected.s = VendorModel
    /\ ret.accepted /\ ret.request.model = OPENROUTER_PREFIX \o VendorModel

\* C8: when the selectedModel value is absent, no string, empty or
\* whitespace only, before_model ends without an exception and leaves the
\* request model as it was, whatever the cache holds.
C8_BlankFallsBack ==
    (ret.op = "before_model" /\ BlankValue(ret.state)) =>
        /\ ~ret.raised /\ ~ret.accepted
        /\ ret.request = ret.prior

\* a whitespace-only value fell back while the cache held a fresh, non-empty
\* snapshot
C8_Witness ==
    /\ ret.op = "before_model" /\ ret.state = Str(<<" ", "\t">>)
    /\ ret.request.model = DefaultModel
    /\ cache.present /\ cache.ids /= {}
    /\ now - cache_updated_at < CACHE_TTL_SECONDS

\* C9: when the assignment of the accepted model raises, before_model
\* catches the exception, logs a warning and leaves the request with the
\* model it had; the exception does not reach the caller.
C9_ApplyFailureContained ==
    (ret.op = "before_model" /\ ret.refused) =>
        /\ ~ret.raised
        /\ WarningLogged(ret.log)
        /\ ret.request = ret.prior

\* the assignment of an accepted model of the allow-list raised
C9_Witness ==
    /\ ret.op = "before_model" /\ ret.refused /\ ret.accepted
    /\ ret.selected.s \in ret.ids /\ ret.request.model = DefaultModel

\* C10: for every selected model value and every outcome of the fetch the
\* cache refresh meets, before_model ends with the rewritten or the prior
\* model and does not raise.
C10_BeforeModelNeverRaises == ret.op = "before_model" => ~ret.raised

\* C11: at most one fetch is in progress, and the thread that runs it holds
\* the cache lock; while the lock is held, a caller waiting for it stays
\* waiting: it returns nothing, starts no fetch and the cache is written by
\* the holder alone.
C11_RefreshExclusive ==
    /\ [](/\ Cardinality({t \in Threads : pc[t] \in {"fetch", "stamp"}}) <= 1
          /\ \A t \in Threads : pc[t] \in {"fetch", "stamp"} => cache_lock = t)
    /\ [][\A t \in Threads :
            (pc[t] = "lock" /\ cache_lock /= 0)
            => /\ pc'[t] = "lock"
               /\ (cache' /= cache \/ cache_updated_at' /= cache_updated_at)
                     => pc[cache_lock] \in {"fetch", "stamp"}
         ]_vars

\* a caller waits for the lock while another one is fetching
C11_Witness ==
    \E t, u \in Threads :
        pc[t] = "fetch" /\ cache_lock = t /\ pc[u] = "lock"

\* C12: a call fetches exactly when, at its check inside the lock, there is
\* no snapshot or the snapshot's age is CACHE_TTL_SECONDS or more; a call
\* that does not fetch returns at once with the cache as it was; a call that
\* fetches does so once and, when it returns, the snapshot it stored carries
\* the clock reading of that moment.
C12_RefreshTrigger ==
    [][\A t \in Threads :
         /\ (pc[t] = "lock" /\ pc'[t] /= "lock")
            => IF ~cache.present \/ now - cache_updated_at >= CACHE_TTL_SECONDS
               THEN pc'[t] = "fetch" /\ cache_lock' = t /\ ret' = NoRet
               ELSE /\ pc'[t] = "idle"
                    /\ ret'.op = op[t] /\ ~ret'.fetched /\ ~ret'.raised
                    /\ cache' = cache /\ cache_updated_at' = cache_updated_at
         /\ (pc[t] = "fetch" /\ pc'[t] /= "fetch")
            => \/ pc'[t] = "stamp" /\ cache'.present
               \/ pc'[t] = "idle" /\ ret'.op = op[t] /\ ret'.raised
         /\ (pc[t] = "stamp" /\ pc'[t] /= "stamp")
            => /\ pc'[t] = "idle"
               /\ ret'.op = op[t] /\ ret'.fetched /\ ~ret'.raised
               /\ cache' = cache /\ cache_updated_at' = now'
      ]_vars

\* a check meets a snapshot aged exactly the TTL and the fetch starts
C12_Witness ==
    \E t \in Threads :
        /\ pc[t] = "fetch"
        /\ cache.present
        /\ now - cache_updated_at = CACHE_TTL_SECONDS

\* C13: a fetch that fails on a network error or a missing credential ends
\* without an exception and stores the empty snapshot in place of whatever
\* was stored, with the clock reading of the store as its timestamp; a check
\* that meets an empty snapshot younger than the TTL returns the empty
\* result without fetching; a check that meets it at or past the TTL
\* fetches anew.
C13_FailedFetchCached ==
    /\ [](ret.outcome \in {"nokey", "error"}
          => /\ ret.op = "fetch_models" /\ ~ret.raised
             /\ cache.present /\ cache.ids = {} /\ cache.models = <<>>
             /\ \E t \in Threads : pc[t] = "stamp" /\ cache_lock = t)
    /\ [][\A t \in Threads :
            /\ (pc[t] = "stamp" /\ pc'[t] /= "stamp")
               => cache_updated_at' = now /\ cache' = cache
            /\ (/\ pc[t] = "lock" /\ pc'[t] /= "lock"
                /\ cache.present /\ cache.ids = {} /\ cache.models = <<>>)
               => IF now - cache_updated_at < CACHE_TTL_SECONDS
                  THEN /\ pc'[t] = "idle"
                       /\ ~ret'.fetched /\ ~ret'.raised
                       /\ ret'.ids = {} /\ ret'.models = <<>>
                       /\ cache' = cache /\ cache_updated_at' = cache_updated_at
                  ELSE pc'[t] = "fetch"
         ]_vars

\* a network error replaces a snapshot that held models by the empty one
C13_Witness ==
    /\ ret.op = "fetch_models"
    /\ ret.outcome = "error"
    /\ ret.old.present /\ ret.old.ids /= {}
    /\ cache.present /\ cache.ids = {} /\ cache.models = <<>>

\* C14: a result that a getter returns is the content of the snapshot
\* stored at that moment, and that snapshot's timestamp is less than
\* CACHE_TTL_SECONDS older than the clock reading of the call's check: a
\* snapshot aged the TTL or more is never returned.
C14_BoundedStaleness ==
    (ret.op \in Getters \cup {"before_model"} /\ ~ret.raised
        /\ (ret.op = "before_model" => ret.selected.some))
    => /\ cache.present
       /\ now - cache_updated_at < CACHE_TTL_SECONDS
       /\ now - cache_updated_at >= 0
       /\ ret.fetched => cache_updated_at = now
       /\ ret.op = "get_models_for_ui" => ret.models = cache.models
       /\ ret.op /= "get_models_for_ui" => ret.ids = cache.ids

\* a snapshot one second short of the TTL is returned without a fetch
C14_Witness ==
    /\ ret.op \in Getters
    /\ ~ret.raised /\ ~ret.fetched
    /\ now - cache_updated_at = CACHE_TTL_SECONDS - 1
    /\ cache.ids /= {}

\* the positions of the raw records whose id is a string, in fetch order
StrIdPositions(raw) == {i \in 1..Len(raw) : raw[i].id.t = "str"}

\* the k-th smallest element of a set of positions
RECURSIVE Nth(_, _)
Nth(S, k) ==
    LET m == CHOOSE x \in S : \A y \in S : x <= y
    IN  IF k = 1 THEN m ELSE Nth(S \ {m}, k - 1)

\* C15: when fetch_models returns a list of records and the snapshot is
\* stored, the id set holds exactly the ids of the records whose id is a
\* string, and the listing holds one record per such raw record, in fetch
\* order, with that record's id, its context_length (null when it has none)
\* and its name, or its id where it has no name field; records whose id is
\* missing or no string are in neither.
C15_SnapshotConstruction ==
    (ret.op = "fetch_models" /\ \A i \in 1..Len(ret.raw) : ret.raw[i].rec)
    => LET raw == ret.raw
           P == StrIdPositions(raw)
       IN  /\ cache.present
           /\ cache.ids = {raw[i].id.s : i \in P}
           /\ Len(cache.models) = Cardinality(P)
           /\ \A k \in 1..Cardinality(P) :
                LET m == raw[Nth(P, k)]
                    e == cache.models[k]
                IN  /\ e.id = m.id.s
                    /\ e.name = IF m.name.t = "absent" THEN m.id ELSE m.name
                    /\ e.context_length =
                          IF m.context_length.t = "absent" THEN None
                          ELSE m.context_length

\* a fetched list with string ids, a numeric id, a missing id and a missing
\* name has been stored
C15_Witness ==
    /\ ret.op = "fetch_models"
    /\ \E i, j, k \in 1..Len(ret.raw) :
          /\ ret.raw[i].id.t = "absent"
          /\ ret.raw[j].id.t = "int"
          /\ ret.raw[k].id.t = "str" /\ ret.raw[k].name.t = "absent"
    /\ Len(cache.models) = 3

\* C20: a before_model call whose state holds no usable selected model is
\* over in one step that leaves the snapshot, its timestamp, the lock and
\* every other caller where they were, whoever holds the lock; such a call
\* is never found waiting for the lock or fetching.
C20_BlankSkipsCache ==
    /\ [](\A t \in Threads :
            op[t] = "before_model" => ~BlankValue(state[t]) /\ sel[t].some)
    /\ [][(ret'.op = "before_model" /\ BlankValue(ret'.state))
          => /\ ~ret'.selected.some /\ ~ret'.fetched /\ ~ret'.raised
             /\ cache' = cache
             /\ cache_updated_at' = cache_updated_at
             /\ cache_lock' = cache_lock
             /\ pc' = pc
         ]_vars

\* a call without a selected model completes while another caller holds the
\* lock in the middle of a refresh
C20_Witness ==
    /\ ret.op = "before_model"
    /\ BlankValue(ret.state)
    /\ \E u \in Threads : pc[u] = "fetch" /\ cache_lock = u

\* C16: add_session_to_memory returns without an exception whether the save
\* succeeds, raises ValueError or raises another exception; it logs its
\* start, and a warning exactly when the save failed.
C16_AddSessionNeverRaises ==
    ret.op = "add_session_to_memory"
    => /\ ~ret.raised
       /\ ret.outcome \in SaveOutcomes
       /\ Len(ret.log) >= 1 /\ ret.log[1][1] = "info"
       /\ WarningLogged(ret.log) <=> ret.outcome /= "ok"

\* the save failed with an exception that is no ValueError and the callback
\* has returned
C16_Witness ==
    /\ ret.op = "add_session_to_memory"
    /\ ret.outcome = "RuntimeError"
    /\ ~ret.raised

Observers == {"before_agent", "after_agent", "after_model", "before_tool", "after_tool"}

\* C17: before_agent, after_agent, after_model, before_tool and after_tool
\* leave the state container, the response and the tool arguments they were
\* handed as they were; before_model leaves the state container and the
\* contents of the request as they were and writes the request's model only
\* when the selected model was accepted.
C17_ObserversChangeNothing ==
    /\ ret.op \in Observers
       => /\ ~ret.raised
          /\ ret.after = [state |-> ret.state, response |-> ret.response,
                          args |-> ret.args]
          /\ ret.request = ret.prior
    /\ ret.op = "before_model"
       => /\ ret.after.state = ret.state
          /\ ret.request.contents = ret.prior.contents
          /\ ret.request.model /= ret.prior.model
             => /\ ret.accepted /\ ~ret.refused
                /\ ret.request.model = WithPrefix(ret.selected.s)

\* after_tool has returned from a call with arguments and a tool response
C17_Witness ==
    /\ ret.op = "after_tool"
    /\ ret.args \in ToolArgs
    /\ ret.response \in ToolResponses
    /\ ret.state = Str(Foo)

C19_CallerIsolation == ret.op = "caller" => cache = ret.old

====
